---- MODULE Spec2Model ----
(***************************************************************************)
(* InputPVTransformer (src/src/transformers/transformer.py) and the part   *)
(* of run_iteration (src/src/run.py) that consumes its result.             *)
(*                                                                         *)
(* Signal names are sequences of one-character strings, so that the        *)
(* ':' -> '_' rewrite is computed character by character.  A formula text  *)
(* is the expression sympify parses it to, over the names as written in    *)
(* the text.  A value is a record [kind, shape, data]: kind is the Python   *)
(* type, shape the numpy shape (<<>> for a scalar), data the elements in    *)
(* row-major order.                                                        *)
(***************************************************************************)
EXTENDS Integers, Sequences, FiniteSets, TLC

\* ------------------------------------------------------------------ bounds

\* Most output variables in a configuration.
MaxOutputs == 2

\* Most entries in a raw batch.
MaxBatch == 2

\* ------------------------------------------------------------------- names

X == <<"X">>
Y == <<"Y">>
Z == <<"Z">>
A_colon_B == <<"A", ":", "B">>
A_under_B == <<"A", "_", "B">>
P == <<"P">>
R == <<"R">>
W == <<"W">>
NoName == <<>>

\* str.replace(':', '_')
Sanitize(name) ==
  [i \in 1..Len(name) |-> IF name[i] = ":" THEN "_" ELSE name[i]]

\* [symbol.replace(':', '_') for symbol in self.input_list]
RenameAll(names) == [i \in 1..Len(names) |-> Sanitize(names[i])]

Range(s) == {s[i] : i \in 1..Len(s)}

NoDuplicates(s) == \A i, j \in 1..Len(s) : s[i] = s[j] => i = j

\* ------------------------------------------------------------------ values

RECURSIVE Prod(_)
Prod(s) == IF Len(s) = 0 THEN 1 ELSE s[1] * Prod(Tail(s))

Val(kind, shape, data) == [kind |-> kind, shape |-> shape, data |-> data]

PyFloat(x) == Val("float", <<>>, <<x>>)
PyInt(x) == Val("int", <<>>, <<x>>)
NpFloat32(x) == Val("float32", <<>>, <<x>>)
PyStr == Val("str", <<>>, <<0>>)
PyTuple(d) == Val("tuple", <<Len(d)>>, d)
NdArray(shape, data) == Val("ndarray", shape, data)
PyList(shape, data) == Val("list", shape, data)
\* a list holding a string that float() cannot parse, e.g. ['a']
PyListOfStr == Val("strlist", <<1>>, <<0>>)
NoValue == Val("none", <<>>, <<0>>)

\* NormalizeValue with np.array([value]) for an ndarray: an axis is added.
NormalizeValueWrapped(v) ==
  CASE v.kind \in {"float", "int", "float32"} ->
         [exc |-> "none", value |-> PyFloat(v.data[1])]
    [] v.kind = "ndarray" ->
         [exc |-> "none", value |-> NdArray(<<1>> \o v.shape, v.data)]
    [] v.kind = "list" ->
         [exc |-> "none", value |-> NdArray(v.shape, v.data)]
    [] v.kind = "strlist" -> [exc |-> "ValueError", value |-> v]
    [] OTHER -> [exc |-> "Exception", value |-> v]

\* NormalizeValue without the else branch that raises.
NormalizeValueLenient(v) ==
  CASE v.kind \in {"float", "int", "float32"} ->
         [exc |-> "none", value |-> PyFloat(v.data[1])]
    [] v.kind \in {"ndarray", "list"} ->
         [exc |-> "none", value |-> NdArray(v.shape, v.data)]
    [] v.kind = "strlist" -> [exc |-> "ValueError", value |-> v]
    [] OTHER -> [exc |-> "none", value |-> v]

\* transform, lines 105-118: what one entry's value becomes, or the
\* exception.  float, int and np.float32 become a float; an ndarray or a list
\* becomes a float array, unless an element is no number; any other type
\* raises.
NormalizeValue(v) ==
  CASE v.kind \in {"float", "int", "float32"} ->
         [exc |-> "none", value |-> PyFloat(v.data[1])]
    [] v.kind \in {"ndarray", "list"} ->
         [exc |-> "none", value |-> NdArray(v.shape, v.data)]
    [] v.kind = "strlist" -> [exc |-> "ValueError", value |-> v]
    [] OTHER -> [exc |-> "Exception", value |-> v]

\* numpy broadcasting of two shapes, aligned at the last axis
MaxOf(a, b) == IF a >= b THEN a ELSE b

PadShape(s, n) ==
  [i \in 1..n |-> IF i <= n - Len(s) THEN 1 ELSE s[i - (n - Len(s))]]

BroadcastOK(s1, s2) ==
  LET n == MaxOf(Len(s1), Len(s2))
      p1 == PadShape(s1, n)
      p2 == PadShape(s2, n)
  IN \A i \in 1..n : p1[i] = p2[i] \/ p1[i] = 1 \/ p2[i] = 1

BroadcastShape(s1, s2) ==
  LET n == MaxOf(Len(s1), Len(s2))
      p1 == PadShape(s1, n)
      p2 == PadShape(s2, n)
  IN [i \in 1..n |-> IF p1[i] = 1 THEN p2[i] ELSE p1[i]]

Stride(s, i) == Prod(SubSeq(s, i + 1, Len(s)))

RECURSIVE SumTo(_, _)
SumTo(f, n) == IF n = 0 THEN 0 ELSE f[n] + SumTo(f, n - 1)

\* The element of an operand of shape s that lands at flat position j
\* (from 0) of the broadcast result of shape r.
SourceIndex(s, r, j) ==
  LET n == Len(r)
      p == PadShape(s, n)
      term == [i \in 1..n |->
                 IF p[i] = 1 THEN 0
                 ELSE ((j \div Stride(r, i)) % r[i]) * Stride(p, i)]
  IN SumTo(term, n)

\* What numpy hands back for an array-valued result: a 0-d result of an
\* arithmetic operation is a numpy float scalar, not an ndarray.
ArithResult(shape, data) ==
  IF Len(shape) = 0 THEN PyFloat(data[1]) ELSE NdArray(shape, data)

\* k * a
NpScale(k, a) ==
  IF a.kind = "ndarray"
    THEN ArithResult(a.shape, [i \in 1..Len(a.data) |-> k * a.data[i]])
    ELSE PyFloat(k * a.data[1])

\* a + b; shapes that do not broadcast raise ValueError
NpAdd(a, b) ==
  IF ~BroadcastOK(a.shape, b.shape)
    THEN [exc |-> "ValueError", value |-> NoValue]
    ELSE LET r == BroadcastShape(a.shape, b.shape)
             d == [j \in 1..Prod(r) |->
                     a.data[SourceIndex(a.shape, r, j - 1) + 1]
                     + b.data[SourceIndex(b.shape, r, j - 1) + 1]]
         IN [exc |-> "none",
             value |-> IF a.kind = "ndarray" \/ b.kind = "ndarray"
                         THEN ArithResult(r, d)
                         ELSE PyFloat(d[1])]

\* ---------------------------------------------------------------- formulas

\* A formula text, as the expression its characters spell: a constant, a
\* name, k * name, name + name, or text that is no expression at all.
Formula(op, k, a, b) == [op |-> op, k |-> k, a |-> a, b |-> b]
FConst(c) == Formula("const", c, NoName, NoName)
FSym(s) == Formula("sym", 1, s, NoName)
FScale(k, s) == Formula("scale", k, s, NoName)
FAdd(a, b) == Formula("add", 1, a, b)
FBad == Formula("bad", 0, NoName, NoName)

\* sp.sympify(str(formula).replace(':', '_')): the rewrite acts on the whole
\* text, so on every name in it; text that does not parse raises.
Sympify(text) ==
  IF text.op = "bad"
    THEN [exc |-> "SympifyError", expr |-> text]
    ELSE [exc |-> "none",
          expr |-> [text EXCEPT !.a = Sanitize(@), !.b = Sanitize(@)]]

FreeSymbols(expr) ==
  CASE expr.op \in {"sym", "scale"} -> {expr.a}
    [] expr.op = "add" -> {expr.a, expr.b}
    [] OTHER -> {}

\* sp.lambdify(args, expr, modules='numpy') with args a list of strings:
\* sympy prints "def _lambdifygenerated(<args>): return <expr>" and compiles
\* it; Python refuses a def that names one parameter twice (SyntaxError).
\* A name of expr that is no parameter is left free in the function body.
Lambdify(args, expr) ==
  IF NoDuplicates(args)
    THEN [exc |-> "none", fn |-> [args |-> args, expr |-> expr]]
    ELSE [exc |-> "SyntaxError", fn |-> [args |-> <<>>, expr |-> expr]]

\* The position of parameter s in the parameter list (0: not a parameter).
ArgIndex(args, s) ==
  IF s \in Range(args) THEN CHOOSE i \in 1..Len(args) : args[i] = s ELSE 0

\* lambdified_formula(*vals): the parameters are bound by position; a free
\* name of the body is looked up as a global and is not found (NameError).
CallLambdified(fn, vals) ==
  LET e == fn.expr
      arg(s) == vals[ArgIndex(fn.args, s)]
  IN IF ~(FreeSymbols(e) \subseteq Range(fn.args))
       THEN [exc |-> "NameError", value |-> NoValue]
       ELSE CASE e.op = "const" -> [exc |-> "none", value |-> PyInt(e.k)]
              [] e.op = "sym" -> [exc |-> "none", value |-> arg(e.a)]
              [] e.op = "scale" ->
                   [exc |-> "none", value |-> NpScale(e.k, arg(e.a))]
              [] OTHER -> NpAdd(arg(e.a), arg(e.b))

\* ndarray.squeeze(): every axis of extent 1 is dropped
Squeeze(v) == NdArray(SelectSeq(v.shape, LAMBDA d : d # 1), v.data)

\* _transform, lines 139-143
ShapeResult(r) ==
  IF r.kind = "ndarray"
    THEN IF Len(r.shape) = 0
           THEN [exc |-> "IndexError", value |-> NoValue]
           ELSE IF r.shape[Len(r.shape)] = 1
                  THEN [exc |-> "none", value |-> Squeeze(r)]
                  ELSE [exc |-> "none", value |-> r]
    ELSE [exc |-> "none", value |-> PyFloat(r.data[1])]

\* ------------------------------------------------------------ construction

\* One entry of config['input_variables']; the mapping is the sequence of
\* its entries in declaration order (a dict keeps insertion order).
Entry(name, formula, has_symbols, symbols) ==
  [name |-> name, formula |-> formula,
   has_symbols |-> has_symbols, symbols |-> symbols]

\* __init__, lines 60-65: the symbols of every entry that has some, appended
\* in declaration order, nothing removed.
RECURSIVE CollectSymbols(_)
CollectSymbols(pv_mapping) ==
  IF Len(pv_mapping) = 0 THEN <<>>
  ELSE (IF pv_mapping[1].has_symbols THEN pv_mapping[1].symbols ELSE <<>>)
       \o CollectSymbols(Tail(pv_mapping))

\* _validate_formulas over every entry, lines 72-73 and 85-89
FormulasValid(pv_mapping) ==
  \A i \in 1..Len(pv_mapping) : Sympify(pv_mapping[i].formula).exc = "none"

NoTransformer ==
  [input_list |-> <<>>, pv_mapping |-> <<>>, formulas |-> <<>>,
   lambdified_formulas |-> <<>>]

\* __init__: the transformer, or the exception that leaves the caller
\* without one.
Construct(config) ==
  LET input_list == CollectSymbols(config)
      n == Len(config)
      formulas == [i \in 1..n |-> Sympify(config[i].formula).expr]
      compiled == [i \in 1..n |-> Lambdify(RenameAll(input_list), formulas[i])]
  IN IF ~FormulasValid(config)
       THEN [exc |-> "Exception", self |-> NoTransformer]
       ELSE IF \E i \in 1..n : compiled[i].exc # "none"
              THEN [exc |-> "SyntaxError", self |-> NoTransformer]
              ELSE [exc |-> "none",
                    self |-> [input_list |-> input_list,
                              pv_mapping |-> config,
                              formulas |-> formulas,
                              lambdified_formulas |->
                                [i \in 1..n |-> compiled[i].fn]]]

\* ---------------------------------------------------------------- transform

\* One entry of a raw batch: input_dict[key] = {"value": ..., "posixseconds": ...}
Signal(key, value, posixseconds) ==
  [key |-> key, value |-> value, posixseconds |-> posixseconds]

BatchKeys(b) == {b[i].key : i \in 1..Len(b)}

\* transform, lines 105-118: the entries are normalised in place, in batch
\* order, up to the first one that raises.
NormalizeBatch(b) ==
  LET nv == [i \in 1..Len(b) |-> NormalizeValue(b[i].value)]
      failing == {i \in 1..Len(b) : nv[i].exc # "none"}
      stop == IF failing = {} THEN Len(b) + 1
              ELSE CHOOSE i \in failing : \A j \in failing : i <= j
  IN [exc |-> IF failing = {} THEN "none" ELSE nv[stop].exc,
      batch |-> [i \in 1..Len(b) |->
                   IF i < stop THEN [b[i] EXCEPT !.value = nv[i].value]
                   ELSE b[i]]]

\* _transform, lines 128-130: a dict comprehension, so of two keys with one
\* sanitized form the later entry's value is the one kept.
PvsRenamed(b) ==
  LET keys == {Sanitize(b[i].key) : i \in 1..Len(b)}
      last(k) == CHOOSE i \in 1..Len(b) :
                   /\ Sanitize(b[i].key) = k
                   /\ \A j \in 1..Len(b) : Sanitize(b[j].key) = k => j <= i
  IN [k \in keys |-> b[last(k)].value]

\* EvaluationOrder walking the mapping from its last entry.
ReversedOrder(self) ==
  [i \in 1..Len(self.pv_mapping) |-> Len(self.pv_mapping) + 1 - i]

\* for key in self.pv_mapping.keys(), line 132: declaration order
EvaluationOrder(self) == [i \in 1..Len(self.pv_mapping) |-> i]

\* The one element of a singleton set.  {F(x) : x \in {e}} computes e once
\* and hands F its value.
Only(S) == CHOOSE x \in S : TRUE

\* _transform, lines 135-143, once the arguments are looked up
EvaluateWith(fn, vals) ==
  LET r == CallLambdified(fn, vals)
  IN IF r.exc # "none"
       THEN [exc |-> r.exc, value |-> NoValue, called |-> TRUE]
       ELSE [exc |-> ShapeResult(r.value).exc,
             value |-> ShapeResult(r.value).value,
             called |-> TRUE]

\* _transform, lines 134-143, for the i-th output: the value stored under
\* its key, or the exception; called is whether the evaluator was entered.
EvaluateOutput(self, pvs_renamed, i) ==
  IF \E k \in 1..Len(self.input_list) :
       Sanitize(self.input_list[k]) \notin DOMAIN pvs_renamed
    THEN [exc |-> "KeyError", value |-> NoValue, called |-> FALSE]
    ELSE Only({ EvaluateWith(self.lambdified_formulas[i], vals) :
                  vals \in {[k \in 1..Len(self.input_list) |->
                               pvs_renamed[Sanitize(self.input_list[k])]]} })

\* _transform, lines 132-149: the outputs are evaluated in order; the first
\* exception ends the call and nothing is returned, otherwise transformed
\* holds an entry [key, value] per output, in the order they were stored.
TransformLoop(self, pvs_renamed) ==
  LET n == Len(self.pv_mapping)
      order == EvaluationOrder(self)
      failing == {p \in 1..n :
                    EvaluateOutput(self, pvs_renamed, order[p]).exc # "none"}
      first == CHOOSE p \in failing : \A q \in failing : p <= q
  IN IF failing = {}
       THEN [exc |-> "none",
             out |-> [p \in 1..n |->
                        [key |-> self.pv_mapping[order[p]].name,
                         value |->
                           EvaluateOutput(self, pvs_renamed, order[p]).value]],
             evaluated |-> n]
       ELSE [exc |-> EvaluateOutput(self, pvs_renamed, order[first]).exc,
             out |-> <<>>,
             evaluated |->
               IF EvaluateOutput(self, pvs_renamed, order[first]).called
                 THEN first ELSE first - 1]

\* transform, lines 120-124, on the normalised batch
TransformNormalized(self, nz) ==
  IF nz.exc # "none"
    THEN [batch |-> nz.batch, exc |-> nz.exc, out |-> <<>>, evaluated |-> 0]
    ELSE Only({ [batch |-> nz.batch, exc |-> r.exc, out |-> r.out,
                 evaluated |-> r.evaluated] :
                  r \in {Only({ TransformLoop(self, pvs) :
                                  pvs \in {PvsRenamed(nz.batch)} })} })

\* transform(input_dict): the batch as the call leaves it, the exception
\* raised or "none", the dict returned (<<>> when it raises), and how many
\* evaluators were entered.
Transform(self, input_dict) ==
  Only({ TransformNormalized(self, nz) : nz \in {NormalizeBatch(input_dict)} })

\* line 94 of run_iteration: int(max(d["posixseconds"] for d in
\* input_dict.values())) over the dict transform returned.  max of no
\* values raises ValueError; otherwise the first value is subscripted with a
\* string: a float is not subscriptable (TypeError), an ndarray takes no
\* string index (IndexError).
MaxPosixseconds(out) ==
  IF Len(out) = 0 THEN "ValueError"
  ELSE IF out[1].value.kind = "ndarray" THEN "IndexError" ELSE "TypeError"

\* ------------------------------------------------------------------ inputs

\* The entries configurations are drawn from.
ConfigPool ==
  { Entry(P, FAdd(X, Y), TRUE, <<X, Y>>),
    Entry(W, FScale(2, X), FALSE, <<>>),
    Entry(W, FScale(2, A_colon_B), TRUE, <<A_colon_B>>),
    Entry(X, FSym(X), TRUE, <<X>>),
    Entry(R, FConst(42), FALSE, <<>>),
    Entry(R, FSym(A_under_B), TRUE, <<A_under_B>>),
    Entry(P, FBad, TRUE, <<X>>),
    Entry(R, FAdd(X, Z), TRUE, <<X>>),
    Entry(P, FAdd(A_colon_B, Y), TRUE, <<A_colon_B, Y>>) }

\* A mapping has one entry per key.
Configs ==
  { c \in UNION {[1..n -> ConfigPool] : n \in 0..MaxOutputs} :
      \A i, j \in 1..Len(c) : c[i].name = c[j].name => i = j }

\* The entries raw batches are drawn from.
SignalPool ==
  { Signal(X, PyFloat(3), 100),
    Signal(X, PyInt(4), 200),
    Signal(X, PyStr, 100),
    Signal(X, NdArray(<<>>, <<9>>), 200),
    Signal(Y, PyFloat(4), 200),
    Signal(Y, NdArray(<<3>>, <<10, 20, 30>>), 100),
    Signal(Y, PyTuple(<<1, 2>>), 200),
    Signal(A_colon_B, PyList(<<2>>, <<1, 2>>), 100),
    Signal(A_colon_B, NdArray(<<2, 1>>, <<5, 6>>), 200),
    Signal(A_colon_B, NpFloat32(1), 100),
    Signal(A_under_B, PyFloat(5), 200),
    Signal(A_under_B, NdArray(<<1, 2, 1>>, <<7, 8>>), 100),
    Signal(A_under_B, PyListOfStr, 200) }

Batches ==
  { b \in UNION {[1..n -> SignalPool] : n \in 0..MaxBatch} :
      \A i, j \in 1..Len(b) : b[i].key = b[j].key => i = j }

\* ----------------------------------------------------------- state machine

VARIABLES
  config,        \* the configuration document handed to the constructors
  phase,         \* "new", "ready" (constructed) or "failed" (__init__ raised)
  ctor_exc,      \* what __init__ raised, or "none"
  transformers,  \* two InputPVTransformer instances built from config
  orig,          \* the raw batch of the first call of a series, as handed in
  batch,         \* the caller's batch object as the last call left it
  result,        \* the last call's outcome
  prev,          \* the outcome of the call before, on the same input
  mode,          \* how the last call got its input
  iteration,     \* what run_iteration raised at line 94, or "none"
  tpc,           \* per thread: where its transform call stands
  tinput,        \* per thread: the raw batch it handed in
  tbatch,        \* per thread: its own batch object
  tresult,       \* per thread: the outcome of its call
  frames         \* the local variables of the running calls

svars == <<config, phase, ctor_exc, transformers, orig, batch, result, prev,
           mode, iteration>>

tvars == <<tpc, tinput, tbatch, tresult, frames>>

vars == <<svars, tvars>>

NoCall == [exc |-> "nocall", out |-> <<>>, evaluated |-> 0]

Threads == {1, 2}

NoFrame == [i |-> 0, pvs_renamed |-> <<>>, transformed |-> <<>>, evaluated |-> 0]

ThreadsIdle ==
  /\ tpc = [t \in Threads |-> "idle"]
  /\ tinput = [t \in Threads |-> <<>>]
  /\ tbatch = [t \in Threads |-> <<>>]
  /\ tresult = [t \in Threads |-> NoCall]
  /\ frames = [t \in Threads |-> NoFrame]

Outcome(r) == [exc |-> r.exc, out |-> r.out, evaluated |-> r.evaluated]

Init ==
  /\ config \in Configs
  /\ phase = "new"
  /\ ctor_exc = "none"
  /\ transformers = <<NoTransformer, NoTransformer>>
  /\ orig = <<>>
  /\ batch = <<>>
  /\ result = NoCall
  /\ prev = NoCall
  /\ mode = "none"
  /\ iteration = "none"
  /\ ThreadsIdle

\* InputPVTransformer(config), twice
ConstructBoth ==
  /\ phase = "new"
  /\ LET c == Construct(config)
     IN /\ phase' = IF c.exc = "none" THEN "ready" ELSE "failed"
        /\ ctor_exc' = c.exc
        /\ transformers' = <<c.self, Construct(config).self>>
  /\ UNCHANGED <<config, orig, batch, result, prev, mode, iteration>>
  /\ UNCHANGED tvars

\* The first call: transformers[1].transform(b) on a raw batch.  The
\* transformer keeps nothing of a call, so the calls that follow it are the
\* repeated ones below.
TransformFresh ==
  /\ phase = "ready"
  /\ mode = "none"
  /\ \E b \in Batches :
       \E r \in {Transform(transformers[1], b)} :
          /\ orig' = b
          /\ batch' = r.batch
          /\ result' = Outcome(r)
  /\ prev' = NoCall
  /\ mode' = "fresh"
  /\ iteration' = "none"
  /\ UNCHANGED <<config, phase, ctor_exc, transformers>>
  /\ UNCHANGED tvars

\* transform called again with the very batch object of the last call
TransformSame ==
  /\ phase = "ready"
  /\ mode \in {"fresh", "same", "copy"}
  /\ \E r \in {Transform(transformers[1], batch)} :
        /\ batch' = r.batch
        /\ result' = Outcome(r)
  /\ prev' = result
  /\ mode' = "same"
  /\ iteration' = "none"
  /\ UNCHANGED <<config, phase, ctor_exc, transformers, orig>>
  /\ UNCHANGED tvars

\* The second instance called with a new batch equal to the raw batch of
\* the first call.
TransformCopy ==
  /\ phase = "ready"
  /\ mode \in {"fresh", "same", "copy"}
  /\ \E r \in {Transform(transformers[2], orig)} :
        /\ batch' = r.batch
        /\ result' = Outcome(r)
  /\ prev' = result
  /\ mode' = "copy"
  /\ iteration' = "none"
  /\ UNCHANGED <<config, phase, ctor_exc, transformers, orig>>
  /\ UNCHANGED tvars

\* run_iteration with the epics or k2eg interface, lines 83-94: the
\* interface returns an entry for every name of input_list; transform's
\* exception propagates, and otherwise line 94 reads the timestamps.
RunIteration ==
  /\ phase = "ready"
  /\ mode = "none"
  /\ \E b \in Batches :
       /\ BatchKeys(b) = Range(transformers[1].input_list)
       /\ \E r \in {Transform(transformers[1], b)} :
             /\ orig' = b
             /\ batch' = r.batch
             /\ result' = Outcome(r)
             /\ iteration' = IF r.exc # "none" THEN r.exc
                             ELSE MaxPosixseconds(r.out)
  /\ prev' = NoCall
  /\ mode' = "run"
  /\ UNCHANGED <<config, phase, ctor_exc, transformers>>
  /\ UNCHANGED tvars

Next ==
  \/ ConstructBoth
  \/ TransformFresh
  \/ TransformSame
  \/ TransformCopy
  \/ RunIteration

Spec == Init /\ [][Next]_vars

\* ------------------------------------------- two threads, one transformer

\* The configurations and raw batches of the two-thread runs.
ThreadConfigs ==
  { <<Entry(P, FAdd(X, Y), TRUE, <<X, Y>>), Entry(W, FScale(2, X), FALSE, <<>>)>>,
    <<Entry(W, FScale(2, A_colon_B), TRUE, <<A_colon_B>>),
      Entry(X, FSym(X), TRUE, <<X>>)>>,
    <<Entry(R, FConst(42), FALSE, <<>>)>> }

ThreadBatches ==
  { <<Signal(X, PyInt(4), 200), Signal(Y, PyFloat(4), 200)>>,
    <<Signal(Y, NdArray(<<3>>, <<10, 20, 30>>), 100), Signal(X, PyFloat(3), 100)>>,
    <<Signal(A_colon_B, PyList(<<2>>, <<1, 2>>), 100), Signal(X, PyInt(4), 200)>>,
    <<Signal(X, PyFloat(3), 100), Signal(A_colon_B, NdArray(<<2, 1>>, <<5, 6>>), 200)>>,
    <<Signal(X, PyFloat(3), 100), Signal(Y, PyTuple(<<1, 2>>), 200)>>,
    <<Signal(X, PyFloat(3), 100)>> }

\* Frame with the locals kept in one place for all calls (as attributes of
\* the transformer would be).
SharedFrame(t) == 1

\* The frame in which thread t's call keeps its local variables
\* (transformed, pvs_renamed and the loop positions): one per call.
Frame(t) == t

InitThreads ==
  /\ config \in ThreadConfigs
  /\ phase = "ready"
  /\ ctor_exc = "none"
  /\ transformers = <<Construct(config).self, Construct(config).self>>
  /\ orig = <<>>
  /\ batch = <<>>
  /\ result = NoCall
  /\ prev = NoCall
  /\ mode = "none"
  /\ iteration = "none"
  /\ ThreadsIdle

\* thread t enters transformers[1].transform(b) with a batch of its own
ThreadCall(t) ==
  /\ tpc[t] = "idle"
  /\ \E b \in ThreadBatches :
       /\ tinput' = [tinput EXCEPT ![t] = b]
       /\ tbatch' = [tbatch EXCEPT ![t] = b]
  /\ frames' = [frames EXCEPT ![Frame(t)] = [NoFrame EXCEPT !.i = 1]]
  /\ tpc' = [tpc EXCEPT ![t] = "normalize"]
  /\ UNCHANGED tresult
  /\ UNCHANGED svars

\* one pass of the loop of lines 105-118
ThreadNormalize(t) ==
  /\ tpc[t] = "normalize"
  /\ \E f \in {Frame(t)}, i \in {frames[Frame(t)].i} :
       IF i > Len(tbatch[t])
         THEN /\ tpc' = [tpc EXCEPT ![t] = "rename"]
              /\ UNCHANGED <<tbatch, tresult, frames>>
         ELSE \E r \in {NormalizeValue(tbatch[t][i].value)} :
                IF r.exc # "none"
                  THEN /\ tresult' = [tresult EXCEPT ![t] =
                                        [exc |-> r.exc, out |-> <<>>, evaluated |-> 0]]
                       /\ tpc' = [tpc EXCEPT ![t] = "done"]
                       /\ UNCHANGED <<tbatch, frames>>
                  ELSE /\ tbatch' = [tbatch EXCEPT ![t][i].value = r.value]
                       /\ frames' = [frames EXCEPT ![f].i = i + 1]
                       /\ UNCHANGED <<tpc, tresult>>
  /\ UNCHANGED tinput
  /\ UNCHANGED svars

\* lines 127-130
ThreadRename(t) ==
  /\ tpc[t] = "rename"
  /\ frames' = [frames EXCEPT ![Frame(t)] =
                  [i |-> 1, pvs_renamed |-> PvsRenamed(tbatch[t]),
                   transformed |-> <<>>, evaluated |-> 0]]
  /\ tpc' = [tpc EXCEPT ![t] = "evaluate"]
  /\ UNCHANGED <<tinput, tbatch, tresult>>
  /\ UNCHANGED svars

\* one pass of the loop of lines 132-147
ThreadEvaluate(t) ==
  /\ tpc[t] = "evaluate"
  /\ \E f \in {Frame(t)}, self \in {transformers[1]} :
       /\ frames[f].i <= Len(self.pv_mapping)
       /\ \E k \in {EvaluationOrder(self)[frames[f].i]} :
          \E r \in {EvaluateOutput(self, frames[f].pvs_renamed, k)} :
            IF r.exc # "none"
              THEN /\ tresult' = [tresult EXCEPT ![t] =
                        [exc |-> r.exc, out |-> <<>>,
                         evaluated |-> frames[f].evaluated
                                       + (IF r.called THEN 1 ELSE 0)]]
                   /\ tpc' = [tpc EXCEPT ![t] = "done"]
                   /\ UNCHANGED frames
              ELSE /\ frames' = [frames EXCEPT
                        ![f].transformed =
                           Append(@, [key |-> self.pv_mapping[k].name,
                                      value |-> r.value]),
                        ![f].evaluated = @ + 1,
                        ![f].i = @ + 1]
                   /\ UNCHANGED <<tpc, tresult>>
  /\ UNCHANGED <<tinput, tbatch>>
  /\ UNCHANGED svars

\* line 149
ThreadReturn(t) ==
  /\ tpc[t] = "evaluate"
  /\ frames[Frame(t)].i > Len(transformers[1].pv_mapping)
  /\ tresult' = [tresult EXCEPT ![t] =
                   [exc |-> "none", out |-> frames[Frame(t)].transformed,
                    evaluated |-> frames[Frame(t)].evaluated]]
  /\ tpc' = [tpc EXCEPT ![t] = "done"]
  /\ UNCHANGED <<tinput, tbatch, frames>>
  /\ UNCHANGED svars

NextThreads ==
  \E t \in Threads :
    \/ ThreadCall(t)
    \/ ThreadNormalize(t)
    \/ ThreadRename(t)
    \/ ThreadEvaluate(t)
    \/ ThreadReturn(t)

SpecThreads == InitThreads /\ [][NextThreads]_vars

\* ------------------------------------------------------------------ claims

\* A transform call has been made and returned a dict.
Returned == mode # "none" /\ result.exc = "none"

\* The last call was handed the raw batch orig (not an already normalised one).
CalledOnRaw == mode \in {"fresh", "copy", "run"}

InputList == transformers[1].input_list

KeysOf(out) == [i \in 1..Len(out) |-> out[i].key]

ConfiguredNames == [i \in 1..Len(config) |-> config[i].name]

EntryOf(b, key) == b[CHOOSE i \in 1..Len(b) : b[i].key = key]

MaxTimestamp(b) ==
  CHOOSE m \in {b[i].posixseconds : i \in 1..Len(b)} :
    \A i \in 1..Len(b) : b[i].posixseconds <= m

\* C1: a transform call that returns, returns a dict whose keys are exactly
\* the configured output names, each once, in declaration order.
C1_KeysInDeclarationOrder ==
  Returned => KeysOf(result.out) = ConfiguredNames

C1_Witness ==
  /\ mode = "fresh"
  /\ result.exc = "none"
  /\ Len(result.out) = 2
  /\ InputList # <<>>
  /\ Range(InputList) \subseteq BatchKeys(orig)

\* C2: every entry of the returned dict is a {value, posixseconds} pair,
\* whose posixseconds is that of the raw entry keyed by the output's name
\* when there is one, and the largest posixseconds of the raw batch otherwise.
C2_TimestampLaw ==
  Returned =>
    \A i \in 1..Len(result.out) :
      /\ DOMAIN result.out[i].value = {"value", "posixseconds"}
      /\ result.out[i].value.posixseconds =
           IF result.out[i].key \in BatchKeys(orig)
             THEN EntryOf(orig, result.out[i].key).posixseconds
             ELSE MaxTimestamp(orig)

\* C3: a call whose raw batch lacks a symbol of input_list raises and
\* returns nothing.
C3_MissingSymbolFails ==
  (CalledOnRaw /\ ~(Range(InputList) \subseteq BatchKeys(orig)))
    => (result.exc # "none" /\ result.out = <<>>)

RecognizedKinds == {"float", "int", "float32", "ndarray", "list", "strlist"}

\* C4: a raw entry, used by a formula or not, whose value is neither one of
\* the numeric scalars nor an array or list the code recognises makes the
\* call raise with no evaluator entered and nothing returned; and whenever an
\* evaluator is entered or the call returns, every value of the batch is a
\* float or a float array.
C4_TypeErrorBeforeEvaluation ==
  CalledOnRaw =>
    /\ (\E i \in 1..Len(orig) : orig[i].value.kind \notin RecognizedKinds)
         => /\ result.exc \in {"Exception", "ValueError"}
            /\ result.evaluated = 0
            /\ result.out = <<>>
    /\ (result.evaluated > 0 \/ result.exc = "none")
         => \A i \in 1..Len(batch) : batch[i].value.kind \in {"float", "ndarray"}

C4_Witness ==
  /\ mode = "fresh"
  /\ Len(config) > 0
  /\ result.exc = "Exception"
  /\ \E i \in 1..Len(orig) :
       /\ orig[i].value.kind = "str"
       /\ orig[i].key \notin Range(InputList)
  /\ \E i \in 1..Len(orig) :
       /\ orig[i].value.kind \in {"list", "float32"}
       /\ batch[i].value.kind \in {"ndarray", "float"}

\* C5: sanitization is injective on the names the transformer works with:
\* a constructed transformer has no two symbols with one sanitized form, and
\* no call that returns has looked a symbol up through the key of another
\* signal.
C5_SanitizationInjective ==
  /\ phase = "ready" =>
       \A i, j \in 1..Len(InputList) :
         Sanitize(InputList[i]) = Sanitize(InputList[j])
           => InputList[i] = InputList[j]
  /\ Returned =>
       \A k \in 1..Len(InputList) : \A j \in 1..Len(orig) :
         Sanitize(orig[j].key) = Sanitize(InputList[k])
           => orig[j].key = InputList[k]

\* C6: a configuration with a formula that names a symbol declared in no
\* symbols list is never constructed.
C6_UndeclaredSymbolRejected ==
  phase = "ready" =>
    \A i \in 1..Len(config) :
      FreeSymbols(transformers[1].formulas[i]) \subseteq Range(RenameAll(InputList))

\* C7: a call repeated on the same batch object, or made on an equal batch
\* through the second transformer, has the outcome of the call before it.
C7_RepeatedCallSameResult ==
  mode \in {"same", "copy"} => result = prev

C7_Witness ==
  /\ mode = "same"
  /\ result.exc = "none"
  /\ \E i \in 1..Len(orig) :
       /\ orig[i].value.kind \in {"int", "list"}
       /\ orig[i].key \in Range(InputList)
       /\ batch[i].value # orig[i].value
  /\ \E i \in 1..Len(result.out) : result.out[i].value.kind = "ndarray"

\* What the evaluator of the p-th output returns on the normalised batch,
\* before result shaping.
RawResult(p) ==
  CallLambdified(transformers[1].lambdified_formulas[p],
                 [k \in 1..Len(InputList) |->
                    PvsRenamed(batch)[Sanitize(InputList[k])]]).value

\* An array with its last axis dropped and its other axes kept
\* (numpy's squeeze(axis=-1)).
SqueezeLastAxis(v) == NdArray(SubSeq(v.shape, 1, Len(v.shape) - 1), v.data)

\* C8: an array result whose last axis has extent 1 loses that axis and
\* keeps every other axis; any other array result is unchanged; a scalar
\* result is a float.
C8_OnlyTrailingAxisSqueezed ==
  Returned =>
    \A p \in 1..Len(result.out) :
      result.out[p].value =
        IF RawResult(p).kind = "ndarray"
          THEN IF RawResult(p).shape[Len(RawResult(p).shape)] = 1
                 THEN SqueezeLastAxis(RawResult(p))
                 ELSE RawResult(p)
          ELSE PyFloat(RawResult(p).data[1])

HasColon(name) == \E i \in 1..Len(name) : name[i] = ":"

\* The formula of the p-th output as written, evaluated on the values of the
\* raw entries keyed by the names as written.
ByOriginalKeys(p) ==
  ShapeResult(
    CallLambdified([args |-> InputList, expr |-> config[p].formula],
                   [k \in 1..Len(InputList) |->
                      NormalizeValue(EntryOf(orig, InputList[k]).value).value]).value
  ).value

\* C9: a formula that names a declared signal with ':' in its name gets, on
\* every call that returns, the value of the raw entry keyed by that name.
C9_ColonNameResolvesToOwnEntry ==
  (Returned /\ Range(InputList) \subseteq BatchKeys(orig)) =>
    \A p \in 1..Len(config) :
      (/\ \E s \in {config[p].formula.a, config[p].formula.b} : HasColon(s)
       /\ FreeSymbols(config[p].formula) \subseteq Range(InputList))
        => result.out[p].value = ByOriginalKeys(p)

\* C10: no call changes the transformers, and a call that ends while another
\* thread's call runs on the same transformer ends as it does run alone: with
\* the same outcome and the same batch left behind.
C10_ThreadsDoNotInterfere ==
  /\ transformers = <<Construct(config).self, Construct(config).self>>
  /\ \A t \in Threads :
       tpc[t] = "done" =>
         /\ tresult[t] = Outcome(Transform(Construct(config).self, tinput[t]))
         /\ tbatch[t] = Transform(Construct(config).self, tinput[t]).batch

C10_Witness ==
  /\ tpc[1] = "done"
  /\ tresult[1].exc = "none"
  /\ Len(tresult[1].out) = 2
  /\ tpc[2] = "evaluate"
  /\ frames[Frame(2)].i = 2
  /\ tinput[1] # tinput[2]

====
